---- MODULE Spec2Model ----
(***************************************************************************)
(* A model of src/lib.rs of the psp crate: Card, Transaction, Payable,     *)
(* Payable::calculate_fee and make_payable.                                *)
(*                                                                         *)
(* Values are modelled as the Rust build represents them:                  *)
(*   - a String is a sequence of characters, each with its UTF-8 width;    *)
(*     len() and slicing count bytes;                                      *)
(*   - an f32 is an IEEE-754 binary32 value (sign, 24-bit significand,     *)
(*     exponent), with round-to-nearest-even on every operation;           *)
(*   - a chrono NaiveDate is a proleptic Gregorian calendar date bounded   *)
(*     by NaiveDate::MAX.                                                  *)
(***************************************************************************)
EXTENDS Integers, Sequences, FiniteSets, TLC

(***************************************************************************)
(* f32 arithmetic (src/lib.rs:42, `self.tx.value * (fee / 100.0)`).        *)
(* A finite value is (-1)^s * m * 2^e with m < 2^24, -149 <= e <= 104 and  *)
(* either m >= 2^23 (normal) or e = -149 (subnormal, zero).                *)
(***************************************************************************)
F32Fin(s, m, e) == [k |-> "fin", s |-> s, m |-> m, e |-> e]

F32Inf(s) == [k |-> "inf", s |-> s, m |-> 0, e |-> 0]

F32NaN == [k |-> "nan", s |-> 0, m |-> 0, e |-> 0]

F32Zero(s) == F32Fin(s, 0, -149)

Max(a, b) == IF a >= b THEN a ELSE b

Xor(a, b) == IF a = b THEN 0 ELSE 1

RECURSIVE BitLen(_)
\* Number of significant bits of the natural n (0 for n = 0).
BitLen(n) == IF n = 0 THEN 0 ELSE 1 + BitLen(n \div 2)

\* floor(M / 2^k) for M = H * 2^24 + L (H, L < 2^24), k >= 1, M < 2^(24+k).
ShiftQuot(H, L, k) ==
    IF k > 48 THEN 0
    ELSE IF k <= 24 THEN H * 2^(24 - k) + (L \div 2^k)
    ELSE H \div 2^(k - 24)

\* Sign of (M mod 2^k) - 2^(k-1): the discarded bits against one half ulp.
ShiftCmp(H, L, k) ==
    IF k > 48 THEN -1
    ELSE IF k <= 24 THEN
        LET r == L % 2^k
            half == 2^(k - 1)
        IN  IF r > half THEN 1 ELSE IF r < half THEN -1 ELSE 0
    ELSE
        LET rH == H % 2^(k - 24)
            halfH == 2^(k - 25)
        IN  IF rH > halfH THEN 1
            ELSE IF rH < halfH THEN -1
            ELSE IF L > 0 THEN 1 ELSE 0

\* The f32 nearest to (-1)^s * (H * 2^24 + L) * 2^E, ties to even.
F32Round(s, H, L, E) ==
    LET bl == IF H > 0 THEN 24 + BitLen(H) ELSE BitLen(L)
        k == Max(bl - 24, -149 - E)
    IN  IF bl = 0 THEN F32Zero(s)
        ELSE IF k <= 0 THEN
            IF E + k > 104 THEN F32Inf(s) ELSE F32Fin(s, L * 2^(-k), E + k)
        ELSE
            LET q == ShiftQuot(H, L, k)
                c == ShiftCmp(H, L, k)
                up == c = 1 \/ (c = 0 /\ q % 2 = 1)
                q1 == IF up THEN q + 1 ELSE q
                m == IF q1 = 2^24 THEN 2^23 ELSE q1
                e == IF q1 = 2^24 THEN E + k + 1 ELSE E + k
            IN  IF e > 104 THEN F32Inf(s) ELSE F32Fin(s, m, e)

\* a * b on f32 (IEEE-754 multiplication).
F32Mul(a, b) ==
    IF a.k = "nan" \/ b.k = "nan" THEN F32NaN
    ELSE IF a.k = "inf" \/ b.k = "inf" THEN
        IF (a.k = "fin" /\ a.m = 0) \/ (b.k = "fin" /\ b.m = 0)
        THEN F32NaN
        ELSE F32Inf(Xor(a.s, b.s))
    ELSE
        LET a1 == a.m \div 2^12
            a0 == a.m % 2^12
            b1 == b.m \div 2^12
            b0 == b.m % 2^12
            P2 == a1 * b1
            P1 == a1 * b0 + a0 * b1
            P0 == a0 * b0
            low == (P1 % 2^12) * 2^12 + P0
            L == low % 2^24
            H == P2 + (P1 \div 2^12) + (low \div 2^24)
        IN  F32Round(Xor(a.s, b.s), H, L, a.e + b.e)

RECURSIVE LongDiv(_, _, _, _)
\* n more quotient bits of r / d: <<quotient, remainder>> continuing from q.
LongDiv(q, r, d, n) ==
    IF n = 0 THEN <<q, r>>
    ELSE IF 2 * r >= d THEN LongDiv(2 * q + 1, 2 * r - d, d, n - 1)
    ELSE LongDiv(2 * q, 2 * r, d, n - 1)

\* a / b on f32 (IEEE-754 division).
F32Div(a, b) ==
    IF a.k = "nan" \/ b.k = "nan" THEN F32NaN
    ELSE IF a.k = "inf" THEN
        IF b.k = "inf" THEN F32NaN ELSE F32Inf(Xor(a.s, b.s))
    ELSE IF b.k = "inf" THEN F32Zero(Xor(a.s, b.s))
    ELSE IF b.m = 0 THEN
        IF a.m = 0 THEN F32NaN ELSE F32Inf(Xor(a.s, b.s))
    ELSE IF a.m = 0 THEN F32Zero(Xor(a.s, b.s))
    ELSE
        LET sa == 24 - BitLen(a.m)
            sb == 24 - BitLen(b.m)
            am == a.m * 2^sa
            bm == b.m * 2^sb
            qr == LongDiv(am \div bm, am % bm, bm, 26)
            M == 2 * qr[1] + (IF qr[2] = 0 THEN 0 ELSE 1)
        IN  F32Round(Xor(a.s, b.s), M \div 2^24, M % 2^24,
                     (a.e - sa) - (b.e - sb) - 27)

\* The f32 of a decimal literal n * 2^-h that is exactly representable
\* (100.0 is F32Lit(0, 100, 0), 20.50 is F32Lit(0, 41, 1)).
F32Lit(s, n, h) == F32Round(s, 0, n, -h)

(***************************************************************************)
(* Results of a call: a value, or a panic that unwinds the caller.         *)
(***************************************************************************)
NoValue == [kind |-> "none"]

Ok(v) == [ok |-> TRUE, v |-> v, panic |-> "none"]

Panic(msg) == [ok |-> FALSE, v |-> NoValue, panic |-> msg]

(***************************************************************************)
(* Rust String: a sequence of characters stored as UTF-8.  A character is  *)
(* named by a TLA+ string; "U+00E9" names the two-byte character e-acute,  *)
(* every other character of the model is ASCII (one byte).                 *)
(***************************************************************************)
Utf8Len(c) == IF c = "U+00E9" THEN 2 ELSE 1

RECURSIVE StrLen(_)
\* String::len(): the length in bytes.
StrLen(s) == IF s = << >> THEN 0 ELSE Utf8Len(Head(s)) + StrLen(Tail(s))

\* str::is_char_boundary: byte offset i starts a character or ends the string.
IsCharBoundary(s, i) ==
    \E n \in 0..Len(s) : StrLen(SubSeq(s, 1, n)) = i

\* usize subtraction a - b.  A debug build panics on overflow; a release build
\* wraps modulo 2^64, and the wrapped value 2^64 + (a - b) is kept as the
\* negative representative a - b.
UsizeSub(a, b, build) ==
    IF a < b /\ build = "debug"
    THEN Panic("attempt to subtract with overflow")
    ELSE Ok(a - b)

\* Unsigned x > y on representatives (a negative one stands for 2^64 + x).
UsizeGt(x, y) ==
    IF (x < 0) = (y < 0) THEN x > y ELSE x < 0

\* &s[start..]: the characters from byte offset start on.
SliceFrom(s, start) ==
    IF UsizeGt(start, StrLen(s))
    THEN Panic("range start index out of range for str")
    ELSE IF ~IsCharBoundary(s, start)
    THEN Panic("byte index is not a char boundary")
    ELSE LET n == CHOOSE j \in 0..Len(s) : StrLen(SubSeq(s, 1, j)) = start
         IN  Ok(SubSeq(s, n + 1, Len(s)))

(***************************************************************************)
(* Card (src/lib.rs:58-76).                                                *)
(***************************************************************************)
CARD_DIGITS_TO_SAVE == 4

Card(number, holder, expires_at, cvv) ==
    [number |-> number, holder |-> holder, expires_at |-> expires_at,
     cvv |-> cvv]

\* Card::new under a debug or a release build.
Card_new(number, holder, expires_at, cvv, build) ==
    LET start == UsizeSub(StrLen(number), CARD_DIGITS_TO_SAVE, build)
        last_four_digits ==
            IF start.ok THEN SliceFrom(number, start.v) ELSE start
    IN  IF last_four_digits.ok
        THEN Ok(Card(last_four_digits.v, holder, expires_at, cvv))
        ELSE last_four_digits

(***************************************************************************)
(* Transaction, PaymentMethod (src/lib.rs:6-11, 47-56, 78-82).             *)
(***************************************************************************)
PaymentMethod == {"Debit", "Credit"}

Transaction(value, description, method, card) ==
    [value |-> value, description |-> description, method |-> method,
     card |-> card]

\* Transaction::new with a validation the source does not have: a negative
\* value is stored as 0.0.
Transaction_new_ClampsNegative(value, description, method, card) ==
    Transaction(IF value.k # "nan" /\ value.s = 1 THEN F32Zero(0) ELSE value,
                description, method, card)

\* Transaction::new.
Transaction_new(value, description, method, card) ==
    Transaction(value, description, method, card)

(***************************************************************************)
(* Payable, PayableStatus, calculate_fee (src/lib.rs:12-44).               *)
(***************************************************************************)
PayableStatus == {"Paid", "WaitingFunds"}

DEFAULT_FEE_FOR_DEBIT == F32Lit(0, 3, 0)

DEFAULT_FEE_FOR_CREDIT == F32Lit(0, 5, 0)

Payable(status, tx, date, fee) ==
    [status |-> status, tx |-> tx, date |-> date, fee |-> fee]

\* calculate_fee dividing last: (value * fee) / 100.0, which rounds twice.
calculate_fee_DividesLast(self) ==
    LET fee == IF self.tx.method = "Debit"
               THEN DEFAULT_FEE_FOR_DEBIT
               ELSE DEFAULT_FEE_FOR_CREDIT
    IN  F32Div(F32Mul(self.tx.value, fee), F32Lit(0, 100, 0))

\* Payable::calculate_fee(self).
calculate_fee(self) ==
    LET fee == IF self.tx.method = "Debit"
               THEN DEFAULT_FEE_FOR_DEBIT
               ELSE DEFAULT_FEE_FOR_CREDIT
    IN  F32Mul(self.tx.value, F32Div(fee, F32Lit(0, 100, 0)))

\* Payable::new storing the computed fee in the fee field.
Payable_new_StoresFee(status, tx, date) ==
    Payable(status, tx, date,
            calculate_fee(Payable(status, tx, date, F32Zero(0))))

\* Payable::new.
Payable_new(status, tx, date) == Payable(status, tx, date, F32Zero(0))

(***************************************************************************)
(* chrono::NaiveDate as used by make_payable (src/lib.rs:84-93): a date of *)
(* the proleptic Gregorian calendar, no later than NaiveDate::MAX.         *)
(***************************************************************************)
\* The year of NaiveDate::MAX, 262142-12-31 (262143 in chrono before 0.4.32;
\* nothing below depends on which).
MAX_YEAR == 262142

Date(y, m, d) == [y |-> y, m |-> m, d |-> d]

NaiveDate_MAX == Date(MAX_YEAR, 12, 31)

IsLeapYear(y) == y % 4 = 0 /\ (y % 100 # 0 \/ y % 400 = 0)

DaysInYear(y) == IF IsLeapYear(y) THEN 366 ELSE 365

DaysInMonth(y, m) ==
    IF m = 2 THEN (IF IsLeapYear(y) THEN 29 ELSE 28)
    ELSE IF m \in {4, 6, 9, 11} THEN 30 ELSE 31

RECURSIVE DaysBeforeMonth(_, _)
DaysBeforeMonth(y, m) ==
    IF m = 1 THEN 0 ELSE DaysBeforeMonth(y, m - 1) + DaysInMonth(y, m - 1)

\* NaiveDate::ordinal(): the day of the year, from 1.
Ordinal(date) == DaysBeforeMonth(date.y, date.m) + date.d

\* NaiveDate::from_yo_opt for a valid ordinal.
FromOrdinal(y, o) ==
    LET m == CHOOSE k \in 1..12 :
                 /\ DaysBeforeMonth(y, k) < o
                 /\ o <= DaysBeforeMonth(y, k) + DaysInMonth(y, k)
    IN  Date(y, m, o - DaysBeforeMonth(y, m))

RECURSIVE CarryYears(_, _)
\* <<year, ordinal>> with the ordinal brought into its year.
CarryYears(y, o) ==
    IF o > DaysInYear(y) THEN CarryYears(y + 1, o - DaysInYear(y))
    ELSE <<y, o>>

\* checked_add_days taking every year for a common year of 365 days.
checked_add_days_CommonYears(date, days) ==
    LET o == Ordinal(date) + days
        y == IF o > 365 THEN date.y + 1 ELSE date.y
    IN  IF y > MAX_YEAR THEN [some |-> FALSE, v |-> NoValue]
        ELSE [some |-> TRUE,
              v |-> FromOrdinal(y, IF o > 365 THEN o - 365 ELSE o)]

\* checked_add_days saturating at NaiveDate::MAX instead of returning None.
checked_add_days_Saturating(date, days) ==
    LET yo == CarryYears(date.y, Ordinal(date) + days)
    IN  IF yo[1] > MAX_YEAR THEN [some |-> TRUE, v |-> NaiveDate_MAX]
        ELSE [some |-> TRUE, v |-> FromOrdinal(yo[1], yo[2])]

\* NaiveDate::checked_add_days(Days::new(days)): None past NaiveDate::MAX.
checked_add_days(date, days) ==
    LET yo == CarryYears(date.y, Ordinal(date) + days)
    IN  IF yo[1] > MAX_YEAR THEN [some |-> FALSE, v |-> NoValue]
        ELSE [some |-> TRUE, v |-> FromOrdinal(yo[1], yo[2])]

Digit(n) == <<"0", "1", "2", "3", "4", "5", "6", "7", "8", "9">>[n + 1]

RECURSIVE Decimal(_)
\* The decimal digits of the natural n, without padding.
Decimal(n) ==
    IF n < 10 THEN <<Digit(n)>> ELSE Decimal(n \div 10) \o <<Digit(n % 10)>>

\* write_hundreds: two digits.
Hundreds(n) == <<Digit(n \div 10), Digit(n % 10)>>

\* NaiveDate's Display (to_string), for the years >= 0 of the model:
\* YYYY-MM-DD, and +Y...Y-MM-DD for a year above 9999.
NaiveDate_to_string(date) ==
    (IF date.y <= 9999
     THEN Hundreds(date.y \div 100) \o Hundreds(date.y % 100)
     ELSE <<"+">> \o Decimal(date.y))
    \o <<"-">> \o Hundreds(date.m) \o <<"-">> \o Hundreds(date.d)

(***************************************************************************)
(* make_payable (src/lib.rs:86-96); now is Local::now().date_naive().      *)
(***************************************************************************)
DEFAULT_DAYS_FOR_CREDIT_PAYABLE == 30

\* make_payable holding a Debit transaction for the 30 days as well.
make_payable_DebitWaitsToo(tx, now) ==
    LET thirty_days_later ==
            checked_add_days(now, DEFAULT_DAYS_FOR_CREDIT_PAYABLE)
    IN  IF thirty_days_later.some
        THEN Ok(Payable_new(IF tx.method = "Debit" THEN "Paid"
                            ELSE "WaitingFunds", tx,
                            NaiveDate_to_string(thirty_days_later.v)))
        ELSE Panic("called Option::unwrap() on a None value")

\* make_payable writing the computed fee into the Payable it returns.
make_payable_StoresFee(tx, now) ==
    LET date == IF tx.method = "Debit" THEN [some |-> TRUE, v |-> now]
                ELSE checked_add_days(now, DEFAULT_DAYS_FOR_CREDIT_PAYABLE)
        payable == Payable_new(IF tx.method = "Debit" THEN "Paid"
                               ELSE "WaitingFunds", tx,
                               NaiveDate_to_string(date.v))
    IN  IF date.some
        THEN Ok([payable EXCEPT !.fee = calculate_fee(payable)])
        ELSE Panic("called Option::unwrap() on a None value")

make_payable(tx, now) ==
    IF tx.method = "Debit"
    THEN Ok(Payable_new("Paid", tx, NaiveDate_to_string(now)))
    ELSE LET thirty_days_later ==
                 checked_add_days(now, DEFAULT_DAYS_FOR_CREDIT_PAYABLE)
         IN  IF thirty_days_later.some
             THEN Ok(Payable_new("WaitingFunds", tx,
                                 NaiveDate_to_string(thirty_days_later.v)))
             ELSE Panic("called Option::unwrap() on a None value")

(***************************************************************************)
(* The caller.  The library keeps no state of its own: the state is the    *)
(* system clock, the value the caller owns (Rust moves a Card into its     *)
(* Transaction, a Transaction into its Payable, and calculate_fee consumes *)
(* the Payable), and the last call with its arguments and its result.      *)
(***************************************************************************)
VARIABLES clock, ticks, held, last

vars == <<clock, ticks, held, last>>

MaxNumberLen == 5

MaxTicks == 2

Chars == {"1", "2", "U+00E9"}

\* The card numbers given to Card::new: every string of up to MaxNumberLen
\* characters, and the number of the crate's tests.
Numbers ==
    UNION {[1..n -> Chars] : n \in 0..MaxNumberLen}
        \cup {<<"1", "2", "3", "4", "5", "6", "7", "8">>}

Holders == {"Rafael Dias", ""}

ExpiresAts == {"12/30"}

Cvvs == {"789"}

Builds == {"debug", "release"}

\* 0.0, 10.0, 20.50, 100.0, -100.0, NaN, +infinity, the least subnormal.
Values ==
    {F32Zero(0), F32Lit(0, 10, 0), F32Lit(0, 41, 1), F32Lit(0, 100, 0),
     F32Lit(1, 100, 0), F32NaN, F32Inf(0), F32Fin(0, 1, -149)}

Descriptions == {"A nice description"}

DateStrings == {<<"2", "0", "2", "4", "-", "0", "1", "-", "3", "0">>}

\* The dates the clock starts at: before the end of February in leap and
\* common years, before the end of a year, before year 10000, and before
\* NaiveDate::MAX.
StartDates ==
    {Date(2026, 11, 3), Date(2024, 1, 30), Date(2100, 1, 29),
     Date(2024, 12, 1), Date(9999, 12, 1), Date(MAX_YEAR, 11, 30),
     Date(MAX_YEAR, 12, 30)}

NoCall == [op |-> "none", args |-> NoValue, out |-> Ok(NoValue)]

Call(op, args, out) == [op |-> op, args |-> args, out |-> out]

Holding(kind, out) ==
    IF out.ok THEN [kind |-> kind, v |-> out.v] ELSE NoValue

Init ==
    /\ clock \in StartDates
    /\ ticks = 0
    /\ held = NoValue
    /\ last = NoCall

\* Local midnight passes.
Tick ==
    /\ ticks < MaxTicks
    /\ clock # NaiveDate_MAX
    /\ clock' = checked_add_days(clock, 1).v
    /\ ticks' = ticks + 1
    /\ UNCHANGED <<held, last>>

\* let card = Card::new(number, holder, expires_at, cvv);
CallCardNew ==
    /\ last = NoCall
    /\ \E number \in Numbers, holder \in Holders, expires_at \in ExpiresAts,
          cvv \in Cvvs, build \in Builds :
           LET out == Card_new(number, holder, expires_at, cvv, build)
           IN  /\ held' = Holding("Card", out)
               /\ last' = Call("Card::new",
                               [number |-> number, holder |-> holder,
                                expires_at |-> expires_at, cvv |-> cvv,
                                build |-> build], out)
    /\ UNCHANGED <<clock, ticks>>

\* let tx = Transaction::new(value, description, method, card);
CallTransactionNew ==
    /\ held.kind = "Card"
    /\ \E value \in Values, description \in Descriptions,
          method \in PaymentMethod :
           LET out == Ok(Transaction_new(value, description, method, held.v))
           IN  /\ held' = Holding("Transaction", out)
               /\ last' = Call("Transaction::new",
                               [value |-> value, description |-> description,
                                method |-> method, card |-> held.v], out)
    /\ UNCHANGED <<clock, ticks>>

\* let payable = Payable::new(status, tx, date);
CallPayableNew ==
    /\ held.kind = "Transaction"
    /\ \E status \in PayableStatus, date \in DateStrings :
           LET out == Ok(Payable_new(status, held.v, date))
           IN  /\ held' = Holding("Payable", out)
               /\ last' = Call("Payable::new",
                               [status |-> status, tx |-> held.v,
                                date |-> date], out)
    /\ UNCHANGED <<clock, ticks>>

\* let payable = make_payable(tx);
CallMakePayable ==
    /\ held.kind = "Transaction"
    /\ LET out == make_payable(held.v, clock)
       IN  /\ held' = Holding("Payable", out)
           /\ last' = Call("make_payable", [tx |-> held.v, now |-> clock],
                           out)
    /\ UNCHANGED <<clock, ticks>>

\* let fee = payable.calculate_fee();
CallCalculateFee ==
    /\ held.kind = "Payable"
    /\ held' = NoValue
    /\ last' = Call("calculate_fee", [self |-> held.v],
                    Ok(calculate_fee(held.v)))
    /\ UNCHANGED <<clock, ticks>>

\* The caller's scope ends (or its panic has unwound): what it held is
\* dropped.
EndOfScope ==
    /\ last # NoCall
    /\ held' = NoValue
    /\ last' = NoCall
    /\ UNCHANGED <<clock, ticks>>

Next ==
    \/ Tick
    \/ CallCardNew
    \/ CallTransactionNew
    \/ CallPayableNew
    \/ CallMakePayable
    \/ CallCalculateFee
    \/ EndOfScope

Spec == Init /\ [][Next]_vars

(***************************************************************************)
(* Vocabulary of the properties, written independently of the operators    *)
(* above: characters (not bytes), the civil calendar, decimal text.        *)
(***************************************************************************)
\* The last n characters of s (all of s when it has fewer).
LastChars(s, n) == SubSeq(s, Max(1, Len(s) - n + 1), Len(s))

IsAscii(s) == \A i \in 1..Len(s) : s[i] # "U+00E9"

CalLeap(y) == (y % 400 = 0) \/ (y % 4 = 0 /\ y % 100 # 0)

CalMonthLen(y, m) ==
    <<31, IF CalLeap(y) THEN 29 ELSE 28, 31, 30, 31, 30, 31, 31, 30, 31, 30,
      31>>[m]

\* The calendar day after d.
CalNextDay(d) ==
    IF d.d < CalMonthLen(d.y, d.m) THEN [d EXCEPT !.d = d.d + 1]
    ELSE IF d.m < 12 THEN [y |-> d.y, m |-> d.m + 1, d |-> 1]
    ELSE [y |-> d.y + 1, m |-> 1, d |-> 1]

RECURSIVE CalPlus(_, _)
\* The calendar day n days after d.
CalPlus(d, n) == IF n = 0 THEN d ELSE CalPlus(CalNextDay(d), n - 1)

\* d is a date later than e.
CalAfter(d, e) ==
    \/ d.y > e.y
    \/ d.y = e.y /\ d.m > e.m
    \/ d.y = e.y /\ d.m = e.m /\ d.d > e.d

DigitVal(c) ==
    CHOOSE n \in 0..9 :
        c = <<"0", "1", "2", "3", "4", "5", "6", "7", "8", "9">>[n + 1]

IsDigit(c) == c \in {"0", "1", "2", "3", "4", "5", "6", "7", "8", "9"}

RECURSIVE DecimalVal(_)
DecimalVal(s) ==
    IF s = << >> THEN 0
    ELSE 10 * DecimalVal(SubSeq(s, 1, Len(s) - 1)) + DigitVal(s[Len(s)])

\* s is a date text: YYYY-MM-DD with a year of four digits, or +Y...Y-MM-DD
\* with a year of five digits or more.
IsDateText(s) ==
    /\ Len(s) >= 10
    /\ s[Len(s) - 2] = "-"
    /\ s[Len(s) - 5] = "-"
    /\ \A i \in {Len(s) - 4, Len(s) - 3, Len(s) - 1, Len(s)} : IsDigit(s[i])
    /\ IF s[1] = "+"
       THEN Len(s) >= 12 /\ \A i \in 2..(Len(s) - 6) : IsDigit(s[i])
       ELSE Len(s) = 10 /\ \A i \in 1..4 : IsDigit(s[i])

\* The date a date text denotes.
DateOfText(s) ==
    [y |-> DecimalVal(SubSeq(s, IF s[1] = "+" THEN 2 ELSE 1, Len(s) - 6)),
     m |-> DecimalVal(SubSeq(s, Len(s) - 4, Len(s) - 3)),
     d |-> DecimalVal(SubSeq(s, Len(s) - 1, Len(s)))]

\* value * 0.03 and value * 0.05 with the f32 literals 0.03 and 0.05.
TimesRate(value, method) ==
    F32Mul(value, IF method = "Debit" THEN F32Fin(0, 16106127, -29)
                  ELSE F32Fin(0, 13421773, -28))

\* x >= 0.0 as f32 compares it.
F32NonNegative(x) == x.k # "nan" /\ (x.s = 0 \/ (x.k = "fin" /\ x.m = 0))

CalledMakePayable(method) ==
    last.op = "make_payable" /\ last.args.tx.method = method

Returned(kind) == last.out.ok /\ held = [kind |-> kind, v |-> last.out.v]

(***************************************************************************)
(* Card::new                                                               *)
(***************************************************************************)
\* C1: for every card number of at least 4 characters, Card::new returns a
\* Card whose number is the last 4 characters of the input and whose holder,
\* expires_at and cvv are the inputs verbatim.
CardNewKeepsLastFourCharacters ==
    (last.op = "Card::new" /\ Len(last.args.number) >= CARD_DIGITS_TO_SAVE)
        => /\ Returned("Card")
           /\ last.out.v.number = LastChars(last.args.number, 4)
           /\ last.out.v.holder = last.args.holder
           /\ last.out.v.expires_at = last.args.expires_at
           /\ last.out.v.cvv = last.args.cvv

\* C1 on the card numbers made of ASCII characters only, where a character
\* is a byte.
CardNewAsciiKeepsLastFour ==
    (/\ last.op = "Card::new"
     /\ IsAscii(last.args.number)
     /\ Len(last.args.number) >= CARD_DIGITS_TO_SAVE)
        => /\ Returned("Card")
           /\ last.out.v
                = Card(LastChars(last.args.number, 4), last.args.holder,
                       last.args.expires_at, last.args.cvv)

\* C6: for every card number of 0, 1, 2 or 3 characters, Card::new panics
\* and no Card is produced.
CardNewShortNumberFailsFast ==
    (last.op = "Card::new" /\ Len(last.args.number) < CARD_DIGITS_TO_SAVE)
        => ~last.out.ok /\ held = NoValue

\* C6 on the card numbers made of ASCII characters only.
CardNewAsciiShortNumberPanics ==
    (/\ last.op = "Card::new"
     /\ IsAscii(last.args.number)
     /\ Len(last.args.number) < CARD_DIGITS_TO_SAVE)
        => ~last.out.ok /\ held = NoValue

(***************************************************************************)
(* make_payable                                                            *)
(***************************************************************************)
\* C2: make_payable on a Debit transaction returns a Payable with status
\* Paid whose date is the text of the local date read at the call, with no
\* holding period added.
DebitIsPaidToday ==
    CalledMakePayable("Debit")
        => /\ Returned("Payable")
           /\ last.out.v.status = "Paid"
           /\ IsDateText(last.out.v.date)
           /\ DateOfText(last.out.v.date) = last.args.now

DebitIsPaidTodayWitness ==
    /\ CalledMakePayable("Debit")
    /\ Returned("Payable")
    /\ last.args.now = Date(9999, 12, 2)
    /\ clock = Date(9999, 12, 3)

\* C3: make_payable on a Credit transaction, at a date whose 30th day after
\* is representable, returns a Payable with status WaitingFunds whose date is
\* the text of the date exactly 30 calendar days after the one read at the
\* call, never the current date itself.
CreditWaitsThirtyDays ==
    (/\ CalledMakePayable("Credit")
     /\ ~CalAfter(CalPlus(last.args.now, 30), NaiveDate_MAX))
        => /\ Returned("Payable")
           /\ last.out.v.status = "WaitingFunds"
           /\ IsDateText(last.out.v.date)
           /\ DateOfText(last.out.v.date) = CalPlus(last.args.now, 30)
           /\ DateOfText(last.out.v.date) # last.args.now

CreditWaitsThirtyDaysWitness ==
    /\ CalledMakePayable("Credit")
    /\ Returned("Payable")
    /\ last.args.now = Date(2024, 12, 2)
    /\ DateOfText(held.v.date) = Date(2025, 1, 1)

\* C7: when the current date is within 30 days of the maximum representable
\* date, make_payable on a Credit transaction panics and returns no Payable,
\* and make_payable on a Debit transaction still succeeds.
CreditPastMaxDatePanics ==
    (/\ last.op = "make_payable"
     /\ CalAfter(CalPlus(last.args.now, 30), NaiveDate_MAX))
        => IF last.args.tx.method = "Credit"
           THEN ~last.out.ok /\ held = NoValue
           ELSE /\ Returned("Payable")
                /\ last.out.v.status = "Paid"
                /\ DateOfText(last.out.v.date) = last.args.now

CreditPastMaxDatePanicsWitness ==
    /\ CalledMakePayable("Credit")
    /\ last.args.now = Date(MAX_YEAR, 12, 2)
    /\ ~last.out.ok
    /\ held = NoValue

\* C4: the Payable returned by make_payable carries the processing fee in
\* its fee field, without a call of calculate_fee: for a transaction of value
\* 100 (the one of the crate's tests) the fee is 3.0 for Debit and 5.0 for
\* Credit, that is tx.value * rate / 100 with rate 3 and 5.
MakePayableCarriesFee ==
    (/\ last.op = "make_payable"
     /\ last.out.ok
     /\ last.args.tx.value = F32Lit(0, 100, 0))
        => /\ last.out.v.fee
                = TimesRate(last.args.tx.value, last.args.tx.method)
           /\ last.out.v.fee = IF last.args.tx.method = "Debit"
                               THEN F32Lit(0, 3, 0)
                               ELSE F32Lit(0, 5, 0)

(***************************************************************************)
(* Payable::calculate_fee and the fee field                                *)
(***************************************************************************)
\* C5: calculate_fee(p) returns p.tx.value * 0.03 for Debit and
\* p.tx.value * 0.05 for Credit, the raw f32 product (3.0 and 5.0 for a value
\* of 100.0), whatever the status, date and stored fee of p.
CalculateFeeIsValueTimesRate ==
    last.op = "calculate_fee"
        => LET tx == last.args.self.tx
           IN  /\ last.out.ok
               /\ last.out.v = TimesRate(tx.value, tx.method)
               /\ tx.value = F32Lit(0, 100, 0)
                    => last.out.v = IF tx.method = "Debit"
                                    THEN F32Lit(0, 3, 0)
                                    ELSE F32Lit(0, 5, 0)

CalculateFeeIsValueTimesRateWitness ==
    /\ last.op = "calculate_fee"
    /\ last.args.self.tx.method = "Debit"
    /\ last.args.self.tx.value = F32Lit(0, 100, 0)
    /\ last.args.self.status = "WaitingFunds"
    /\ last.out.v = F32Lit(0, 3, 0)

\* C8: in every reachable state the fee field of every Payable is
\* non-negative, for every transaction value (negative ones included) and
\* every payment method.
FeeFieldIsNonNegative ==
    /\ held.kind = "Payable" => F32NonNegative(held.v.fee)
    /\ last.op = "calculate_fee" => F32NonNegative(last.args.self.fee)

FeeFieldIsNonNegativeWitness ==
    /\ held.kind = "Payable"
    /\ held.v.tx.value = F32Lit(1, 100, 0)
    /\ last.op = "make_payable"

TransactionIsKeptUnchanged ==
    /\ last.op = "Transaction::new"
           => /\ Returned("Transaction")
              /\ last.out.v.value = last.args.value
              /\ last.out.v.description = last.args.description
              /\ last.out.v.method = last.args.method
              /\ last.out.v.card = last.args.card
    /\ (last.op = "make_payable" /\ last.out.ok)
           => last.out.v.tx = last.args.tx

TransactionIsKeptUnchangedWitness ==
    /\ last.op = "make_payable"
    /\ Returned("Payable")
    /\ held.v.tx.value = F32Lit(1, 100, 0)
    /\ held.v.tx.card.number = <<"5", "6", "7", "8">>

====
